---- MODULE Spec2Model ----
(***************************************************************************)
(* Model of magentic/prompt_function.py: the binding between a function    *)
(* signature, a string template and a completion backend.                  *)
(*                                                                         *)
(* Python lists are objects on a heap (a list is named by its index in     *)
(* `heap`), so that aliasing and copying are visible.  A prompt function   *)
(* is a record of its private attributes.  The completion backend, the     *)
(* retry wrapper and get_chat_model() are collaborators: the model records *)
(* what the binding layer hands to them and draws their replies from a     *)
(* small set.                                                              *)
(***************************************************************************)
EXTENDS Integers, Sequences, FiniteSets, TLC

VARIABLES
    decorator,      \* the closure of prompt(...): template, functions, stop, max_retries, model
    heap,           \* the list objects: heap[r] is the content of list r
    pfs,            \* FuncNames -> the prompt function built by decorating that function
    declared,       \* the functions decorated so far
    default_model,  \* what get_chat_model() returns at this moment
    inv,            \* Tasks -> the current (or last) invocation of that task
    held            \* lists handed to user code by the accessors

vars == <<decorator, heap, pfs, declared, default_model, inv, held>>

----------------------------------------------------------------------------
(* Bounds of the model *)

MaxCopies == 1      \* lists handed out by accessors
MaxListLen == 2     \* length a list may be grown to by user code

----------------------------------------------------------------------------
(* Python values *)

\* `None`, as a list reference
NoRef == 0

IntV(n) == [t |-> "int", i |-> n, s |-> ""]
StrV(x) == [t |-> "str", i |-> 0, s |-> x]

\* str(value), as str.format applies it to a replacement field
Str(v) == IF v.t = "int" THEN ToString(v.i) ELSE v.s

\* the items of lists: functions, stop strings, anything user code appends
FunctionObj(n) == [kind |-> "function", name |-> n, args |-> <<>>]
StrObj(x) == [kind |-> "str", name |-> x, args |-> <<>>]
ExtraObj == [kind |-> "object", name |-> "extra", args |-> <<>>]

\* type annotations
PlainT(n) == [kind |-> "plain", name |-> n, args |-> <<>>]
UnionT(members) == [kind |-> "union", name |-> "Union", args |-> members]

\* chat models; NoModel is `None`
NoModel == [cls |-> "NoneType", id |-> "-", chat_model |-> "-", max_retries |-> 0]
ChatModel(id) == [cls |-> "ChatModel", id |-> id, chat_model |-> "-", max_retries |-> 0]
RetryChatModel(chat_model, max_retries) ==
    [cls |-> "RetryChatModel", id |-> "-", chat_model |-> chat_model.id,
     max_retries |-> max_retries]

\* truth value of `x` in `x or y`
Truthy(m) == m.cls # "NoneType"
Or(x, y) == IF Truthy(x) THEN x ELSE y

----------------------------------------------------------------------------
(* The inputs *)

\* template tokens: literal text and replacement fields
Lit(s) == [field |-> FALSE, text |-> s]
Field(n) == [field |-> TRUE, text |-> n]

Templates ==
    { <<Lit("Describe "), Field("a"), Lit(" in "), Field("b")>>,
      <<Lit("Echo "), Field("a")>> }

Param(name, has_default, default) ==
    [name |-> name, has_default |-> has_default, default |-> default]

NoDefault == StrV("")

\* the decorated functions: name, parameters, return annotation, coroutine or not
Funcs ==
    { [name |-> "describe", is_coroutine |-> FALSE,
       parameters |-> <<Param("a", FALSE, NoDefault), Param("b", TRUE, StrV("blue"))>>,
       return_annotation |-> UnionT(<<PlainT("int"), PlainT("str")>>)],
      [name |-> "adescribe", is_coroutine |-> TRUE,
       parameters |-> <<Param("a", FALSE, NoDefault), Param("b", TRUE, StrV("blue"))>>,
       return_annotation |-> UnionT(<<PlainT("int"), PlainT("str")>>)],
      [name |-> "count", is_coroutine |-> FALSE,
       parameters |-> <<Param("a", FALSE, NoDefault)>>,
       return_annotation |-> PlainT("int")] }

FuncNames == {f.name : f \in Funcs}
FuncNamed(n) == CHOOSE f \in Funcs : f.name = n

\* call arguments: positional values and keyword values
NoKw == [n \in {} |-> NoDefault]
Kw1(n, v) == [x \in {n} |-> v]
Kw2(n, v, m, w) == [x \in {n, m} |-> IF x = n THEN v ELSE w]
Call(args, kwargs) == [args |-> args, kwargs |-> kwargs]

ArgLists ==
    { Call(<<IntV(1), StrV("red")>>, NoKw),
      Call(<<>>, Kw2("a", IntV(1), "b", StrV("red"))),
      Call(<<StrV("1")>>, NoKw),
      Call(<<>>, Kw1("b", StrV("red"))),
      Call(<<IntV(1)>>, Kw1("z", StrV("red"))),
      Call(<<IntV(1)>>, Kw1("a", IntV(1))) }

Tasks == {"t1", "t2"}

\* replies of the backend: a message, or an exception
Message(content) == [kind |-> "message", content |-> content]
BackendError == [kind |-> "error", content |-> "-"]
NoReply == [kind |-> "none", content |-> "-"]
Replies == {Message("r1"), Message("r2"), BackendError}

----------------------------------------------------------------------------
(* Binding and formatting *)

\* inspect.Signature.bind(*args, **kwargs) succeeds: not too many positionals,
\* every keyword names a parameter not already filled, no required parameter left
BindOk(parameters, args, kwargs) ==
    /\ Len(args) <= Len(parameters)
    /\ \A n \in DOMAIN kwargs :
          \E k \in (Len(args) + 1)..Len(parameters) : parameters[k].name = n
    /\ \A k \in (Len(args) + 1)..Len(parameters) :
          parameters[k].name \in DOMAIN kwargs \/ parameters[k].has_default

IndexOf(parameters, n) == CHOOSE k \in DOMAIN parameters : parameters[k].name = n

\* BoundArguments.arguments: the parameters the caller gave, by name
BoundArguments(parameters, args, kwargs) ==
    [n \in {parameters[k].name : k \in 1..Len(args)} \cup DOMAIN kwargs |->
        IF n \in DOMAIN kwargs THEN kwargs[n] ELSE args[IndexOf(parameters, n)]]

Bind(signature, args, kwargs) ==
    IF BindOk(signature.parameters, args, kwargs)
    THEN [ok |-> TRUE,
          arguments |-> BoundArguments(signature.parameters, args, kwargs)]
    ELSE [ok |-> FALSE, arguments |-> <<>>]

\* apply_defaults left out: the arguments as the caller gave them
ApplyDefaultsOmitted(signature, arguments) == arguments

\* BoundArguments.apply_defaults()
ApplyDefaults(signature, arguments) ==
    [n \in {signature.parameters[k].name : k \in DOMAIN signature.parameters} |->
        IF n \in DOMAIN arguments
        THEN arguments[n]
        ELSE signature.parameters[IndexOf(signature.parameters, n)].default]

Returned(v) == [ok |-> TRUE, value |-> v, error |-> "-"]
Raised(e) == [ok |-> FALSE, value |-> "-", error |-> e]

RECURSIVE Render(_, _)
Render(template, arguments) ==
    IF template = <<>> THEN ""
    ELSE (IF Head(template).field
          THEN Str(arguments[Head(template).text])
          ELSE Head(template).text) \o Render(Tail(template), arguments)

\* str.format(**arguments): KeyError for a field that names no argument
TemplateFormat(template, arguments) ==
    IF \A k \in DOMAIN template :
          template[k].field => template[k].text \in DOMAIN arguments
    THEN Returned(Render(template, arguments))
    ELSE Raised("KeyError")

\* BasePromptFunction.format
format(pf, args, kwargs) ==
    LET bound_args == Bind(pf._signature, args, kwargs) IN
    IF ~bound_args.ok THEN Raised("TypeError")
    ELSE TemplateFormat(pf._template,
                        ApplyDefaults(pf._signature, bound_args.arguments))

----------------------------------------------------------------------------
(* Declaration *)

\* magentic.typing.split_union_type
split_union_type(type_) == IF type_.kind = "union" THEN type_.args ELSE <<type_>>

Signature(parameters, return_annotation) ==
    [parameters |-> parameters, return_annotation |-> return_annotation]

NoPF ==
    [cls |-> "-", _name |-> "-", _signature |-> Signature(<<>>, PlainT("-")),
     _template |-> <<>>, _functions |-> NoRef, _stop |-> NoRef, _max_retries |-> 0,
     _model |-> NoModel, _return_types |-> NoRef, wrapped |-> "-"]

\* `functions or []`: the caller's list itself unless it is None or empty
FunctionsOrNew(functions, h) ==
    IF functions # NoRef /\ h[functions] # <<>>
    THEN [ref |-> functions, heap |-> h]
    ELSE [ref |-> Len(h) + 1, heap |-> Append(h, <<>>)]

\* the return types kept as the annotation itself, unions unsplit
ReturnTypesListUnsplit(return_type, h) ==
    [ref |-> Len(h) + 1, heap |-> Append(h, <<return_type>>)]

\* `list(split_union_type(return_type))`: a new list
ReturnTypesList(return_type, h) ==
    [ref |-> Len(h) + 1, heap |-> Append(h, split_union_type(return_type))]

\* BasePromptFunction.__init__ (cls is the subclass constructed)
BasePromptFunction(cls, name, parameters, return_type, template, functions, stop, max_retries, model, h) ==
    LET fs == FunctionsOrNew(functions, h)
        rt == ReturnTypesList(return_type, fs.heap)
    IN [pf |-> [cls |-> cls, _name |-> name,
                _signature |-> Signature(parameters, return_type),
                _template |-> template, _functions |-> fs.ref, _stop |-> stop,
                _max_retries |-> max_retries, _model |-> model,
                _return_types |-> rt.ref, wrapped |-> "-"],
        heap |-> rt.heap]

\* the decorator without the coroutine test
DecoratedClassAlwaysSync(func) == "PromptFunction"

\* the class prompt.decorator constructs for func
DecoratedClass(func) ==
    IF func.is_coroutine THEN "AsyncPromptFunction" ELSE "PromptFunction"

\* prompt.decorator(func), with update_wrapper
Decorated(func, d, h) ==
    LET made == BasePromptFunction(DecoratedClass(func), func.name, func.parameters,
                                   func.return_annotation, d.template, d.functions,
                                   d.stop, d.max_retries, d.model, h)
    IN [pf |-> [made.pf EXCEPT !.wrapped = func.name], heap |-> made.heap]

----------------------------------------------------------------------------
(* Invocation *)

\* an optional list, by value: None, or the content of the list
NoList == [some |-> FALSE, v |-> <<>>]
SomeList(v) == [some |-> TRUE, v |-> v]
ListValue(ref, h) == IF ref = NoRef THEN NoList ELSE SomeList(h[ref])

UserMessage(content) == [role |-> "user", content |-> content]

\* what the binding layer hands to complete / acomplete, the lists by content
Request(method, model, messages, functions, output_types, stop) ==
    [method |-> method, model |-> model, messages |-> messages,
     functions |-> functions, output_types |-> output_types, stop |-> stop]

NoRequest == Request("-", NoModel, <<>>, <<>>, <<>>, NoList)

\* the model property without the retry wrapper
ModelPropertyNoRetry(pf, get_chat_model) == Or(pf._model, get_chat_model)

\* the model property resolving the default backend as it was at declaration
ModelPropertyAtDeclaration(pf, get_chat_model) ==
    IF pf._max_retries # 0
    THEN RetryChatModel(Or(pf._model, ChatModel("d1")), pf._max_retries)
    ELSE Or(pf._model, ChatModel("d1"))

\* BasePromptFunction.model
ModelProperty(pf, get_chat_model) ==
    IF pf._max_retries # 0
    THEN RetryChatModel(Or(pf._model, get_chat_model), pf._max_retries)
    ELSE Or(pf._model, get_chat_model)

Issued(request) == [error |-> "-", n_complete |-> 1, request |-> request]
Failed(error) == [error |-> error, n_complete |-> 0, request |-> NoRequest]

\* PromptFunction.__call__ with the stop sequences left out of the request
PromptFunctionCallNoStop(pf, c, get_chat_model, h) ==
    IF ~Bind(pf._signature, c.args, c.kwargs).ok THEN Failed("TypeError")
    ELSE LET model == ModelProperty(pf, get_chat_model)
             content == format(pf, c.args, c.kwargs)
         IN IF ~content.ok THEN Failed(content.error)
            ELSE Issued(Request("complete", model, <<UserMessage(content.value)>>,
                                h[pf._functions], h[pf._return_types], NoList))

\* PromptFunction.__call__ sending whatever format produced, error or not
PromptFunctionCallUnchecked(pf, c, get_chat_model, h) ==
    IF ~Bind(pf._signature, c.args, c.kwargs).ok THEN Failed("TypeError")
    ELSE Issued(Request("complete", ModelProperty(pf, get_chat_model),
                        <<UserMessage(format(pf, c.args, c.kwargs).value)>>,
                        h[pf._functions], h[pf._return_types],
                        ListValue(pf._stop, h)))

\* PromptFunction.__call__ up to the backend's reply
PromptFunctionCall(pf, c, get_chat_model, h) ==
    IF ~Bind(pf._signature, c.args, c.kwargs).ok THEN Failed("TypeError")
    ELSE LET model == ModelProperty(pf, get_chat_model)
             content == format(pf, c.args, c.kwargs)
         IN IF ~content.ok THEN Failed(content.error)
            ELSE Issued(Request("complete", model, <<UserMessage(content.value)>>,
                                h[pf._functions], h[pf._return_types],
                                ListValue(pf._stop, h)))

\* AsyncPromptFunction.__call__ with the functions left out of the request
AsyncPromptFunctionCallNoFunctions(pf, c, get_chat_model, h) ==
    IF ~Bind(pf._signature, c.args, c.kwargs).ok THEN Failed("TypeError")
    ELSE LET model == ModelProperty(pf, get_chat_model)
             content == format(pf, c.args, c.kwargs)
         IN IF ~content.ok THEN Failed(content.error)
            ELSE Issued(Request("acomplete", model, <<UserMessage(content.value)>>,
                                <<>>, h[pf._return_types], ListValue(pf._stop, h)))

\* AsyncPromptFunction.__call__ up to the await
AsyncPromptFunctionCall(pf, c, get_chat_model, h) ==
    IF ~Bind(pf._signature, c.args, c.kwargs).ok THEN Failed("TypeError")
    ELSE LET model == ModelProperty(pf, get_chat_model)
             content == format(pf, c.args, c.kwargs)
         IN IF ~content.ok THEN Failed(content.error)
            ELSE Issued(Request("acomplete", model, <<UserMessage(content.value)>>,
                                h[pf._functions], h[pf._return_types],
                                ListValue(pf._stop, h)))

\* `return message.content`, or the backend's exception
CallResult(reply) ==
    IF reply.kind = "message" THEN Returned(reply.content) ELSE Raised("BackendError")

\* resuming with whichever reply was delivered last to any other task
AwaitedMessageOfAnyTask(t, i) ==
    IF \E u \in DOMAIN i : u # t /\ i[u].reply.kind # "none"
    THEN i[CHOOSE u \in DOMAIN i : u # t /\ i[u].reply.kind # "none"].reply
    ELSE i[t].reply

\* the message an awaiting invocation of task t resumes with
AwaitedMessage(t, i) == i[t].reply

\* the declared configuration of a prompt function, the lists by content
Config(pf, h) ==
    [cls |-> pf.cls, name |-> pf._name, signature |-> pf._signature,
     template |-> pf._template, functions |-> h[pf._functions],
     stop |-> ListValue(pf._stop, h), max_retries |-> pf._max_retries,
     model |-> pf._model, return_types |-> h[pf._return_types]]

NoConfig ==
    [cls |-> "-", name |-> "-", signature |-> Signature(<<>>, PlainT("-")),
     template |-> <<>>, functions |-> <<>>, stop |-> NoList, max_retries |-> 0,
     model |-> NoModel, return_types |-> <<>>]

NoResult == [ok |-> FALSE, value |-> "-", error |-> "-"]

Idle ==
    [pc |-> "idle", pf |-> "-", call |-> Call(<<>>, NoKw), default |-> NoModel,
     config |-> NoConfig, n_complete |-> 0, request |-> NoRequest,
     reply |-> NoReply, result |-> NoResult]

\* the record of an invocation of pfs[f] with call c that has come to `pc`
Invocation(pc, f, c, out, reply, result) ==
    [pc |-> pc, pf |-> f, call |-> c, default |-> default_model,
     config |-> Config(pfs[f], heap), n_complete |-> out.n_complete,
     request |-> out.request, reply |-> reply, result |-> result]

----------------------------------------------------------------------------
(* Initial state: prompt(template, functions, stop, max_retries, model) has   *)
(* returned its decorator; nothing is decorated yet.                        *)

FunctionLists == {NoList, SomeList(<<>>), SomeList(<<FunctionObj("search")>>)}
StopLists == {NoList, SomeList(<<StrObj("END")>>)}
RetryCounts == {0, 2}
Models == {NoModel, ChatModel("m1")}
DefaultModels == {ChatModel("d1"), ChatModel("d2")}

\* prompt(...): the closure holds the caller's own lists
prompt(template, functions, stop, max_retries, model) ==
    LET h1 == IF functions.some THEN <<functions.v>> ELSE <<>>
        h2 == IF stop.some THEN Append(h1, stop.v) ELSE h1
    IN [closure |-> [template |-> template,
                     functions |-> IF functions.some THEN 1 ELSE NoRef,
                     stop |-> IF stop.some THEN Len(h2) ELSE NoRef,
                     max_retries |-> max_retries, model |-> model],
        heap |-> h2]

Init ==
    \E template \in Templates, functions \in FunctionLists, stop \in StopLists,
       max_retries \in RetryCounts, model \in Models :
        LET p == prompt(template, functions, stop, max_retries, model) IN
        /\ decorator = p.closure
        /\ heap = p.heap
        /\ pfs = [f \in FuncNames |-> NoPF]
        /\ declared = {}
        /\ default_model = ChatModel("d1")
        /\ inv = [t \in Tasks |-> Idle]
        /\ held = {}

----------------------------------------------------------------------------
(* Operations *)

\* @decorator def f(...): each function is decorated once, where it is defined
Decorate(f) ==
    /\ f \notin declared
    /\ LET made == Decorated(FuncNamed(f), decorator, heap) IN
        /\ pfs' = [pfs EXCEPT ![f] = made.pf]
        /\ heap' = made.heap
    /\ declared' = declared \cup {f}
    /\ UNCHANGED <<decorator, default_model, inv, held>>

\* the default backend changes (settings, or a context manager)
SetDefault(m) ==
    /\ m # default_model
    /\ default_model' = m
    /\ UNCHANGED <<decorator, heap, pfs, declared, inv, held>>

\* a task calls a PromptFunction: the call blocks until the backend replies
SyncCall(t, f, c, reply) ==
    /\ f \in declared
    /\ pfs[f].cls = "PromptFunction"
    /\ inv[t].pc # "awaiting"
    /\ LET out == PromptFunctionCall(pfs[f], c, default_model, heap) IN
        inv' = [inv EXCEPT ![t] =
                  IF out.n_complete = 0
                  THEN Invocation("done", f, c, out, NoReply, Raised(out.error))
                  ELSE Invocation("done", f, c, out, reply, CallResult(reply))]
    /\ UNCHANGED <<decorator, heap, pfs, declared, default_model, held>>

\* a task calls and awaits an AsyncPromptFunction: up to the await
AsyncCall(t, f, c) ==
    /\ f \in declared
    /\ pfs[f].cls = "AsyncPromptFunction"
    /\ inv[t].pc # "awaiting"
    /\ LET out == AsyncPromptFunctionCall(pfs[f], c, default_model, heap) IN
        inv' = [inv EXCEPT ![t] =
                  IF out.n_complete = 0
                  THEN Invocation("done", f, c, out, NoReply, Raised(out.error))
                  ELSE Invocation("awaiting", f, c, out, NoReply, NoResult)]
    /\ UNCHANGED <<decorator, heap, pfs, declared, default_model, held>>

\* the backend completes the request of task t; the invocation resumes and returns
AsyncResume(t, reply) ==
    /\ inv[t].pc = "awaiting"
    /\ LET delivered == [inv EXCEPT ![t].reply = reply] IN
        inv' = [delivered EXCEPT ![t].pc = "done",
                                 ![t].result = CallResult(AwaitedMessage(t, delivered))]
    /\ UNCHANGED <<decorator, heap, pfs, declared, default_model, held>>

\* a task calls pf.format(*args, **kwargs)
FormatOp(t, f, c) ==
    /\ f \in declared
    /\ inv[t].pc # "awaiting"
    /\ inv' = [inv EXCEPT ![t] =
                 Invocation("formatted", f, c, Failed("-"), NoReply,
                            format(pfs[f], c.args, c.kwargs))]
    /\ UNCHANGED <<decorator, heap, pfs, declared, default_model, held>>

\* the return_types accessor handing out the list itself
ReturnTypesPropertyAliased(pf, h) == [ref |-> pf._return_types, heap |-> h]

\* the accessors: what user code is handed
FunctionsProperty(pf, h) == [ref |-> Len(h) + 1, heap |-> Append(h, h[pf._functions])]
StopProperty(pf, h) ==
    IF pf._stop = NoRef THEN [ref |-> NoRef, heap |-> h]
    ELSE [ref |-> Len(h) + 1, heap |-> Append(h, h[pf._stop])]
ReturnTypesProperty(pf, h) ==
    [ref |-> Len(h) + 1, heap |-> Append(h, h[pf._return_types])]

Hand(got) ==
    /\ Cardinality(held) < MaxCopies
    /\ got.ref # NoRef
    /\ heap' = got.heap
    /\ held' = held \cup {got.ref}
    /\ UNCHANGED <<decorator, pfs, declared, default_model, inv>>

ReadFunctions(f) == f \in declared /\ Hand(FunctionsProperty(pfs[f], heap))
ReadStop(f) == f \in declared /\ Hand(StopProperty(pfs[f], heap))
ReadReturnTypes(f) == f \in declared /\ Hand(ReturnTypesProperty(pfs[f], heap))

\* the lists user code holds: those it passed to prompt() and those it was handed
UserLists == (held \cup {decorator.functions, decorator.stop}) \ {NoRef}

\* user code mutates a list it holds
ListAppend(r) ==
    /\ r \in UserLists
    /\ Len(heap[r]) < MaxListLen
    /\ heap' = [heap EXCEPT ![r] =
                  Append(heap[r], IF heap[r] = <<>> THEN ExtraObj ELSE heap[r][1])]
    /\ UNCHANGED <<decorator, pfs, declared, default_model, inv, held>>

\* declaration: functions are decorated, in any order, while user code may
\* grow the lists it passed to prompt()
Declare ==
    \/ \E f \in FuncNames : Decorate(f)
    \/ \E r \in DOMAIN heap : ListAppend(r)

SpecDecl == Init /\ [][Declare]_vars

\* the module has been imported: every function is decorated, in source order
DeclOrder == <<"describe", "adescribe", "count">>

RECURSIVE DecorateAll(_, _, _, _)
DecorateAll(names, d, h, made) ==
    IF names = <<>> THEN [pfs |-> made, heap |-> h]
    ELSE LET one == Decorated(FuncNamed(Head(names)), d, h) IN
         DecorateAll(Tail(names), d, one.heap, [made EXCEPT ![Head(names)] = one.pf])

InitDeclared ==
    \E template \in Templates, functions \in FunctionLists, stop \in StopLists,
       max_retries \in RetryCounts, model \in Models :
        LET p == prompt(template, functions, stop, max_retries, model)
            all == DecorateAll(DeclOrder, p.closure, p.heap, [f \in FuncNames |-> NoPF])
        IN
        /\ decorator = p.closure
        /\ heap = all.heap
        /\ pfs = all.pfs
        /\ declared = FuncNames
        /\ default_model = ChatModel("d1")
        /\ inv = [t \in Tasks |-> Idle]
        /\ held = {}

\* one task uses the prompt functions: calls and format, under a changing default
MainTask == "t1"

Next ==
    \/ \E m \in DefaultModels : SetDefault(m)
    \/ \E f \in FuncNames, c \in ArgLists, reply \in Replies :
          SyncCall(MainTask, f, c, reply)
    \/ \E f \in FuncNames, c \in ArgLists : AsyncCall(MainTask, f, c)
    \/ \E reply \in Replies : AsyncResume(MainTask, reply)
    \/ \E f \in FuncNames, c \in ArgLists : FormatOp(MainTask, f, c)

Spec == InitDeclared /\ [][Next]_vars

\* concurrent tasks call the prompt functions: the same values spelled
\* positionally and by keyword, a call relying on a default, a call that does
\* not bind
ConcurrentCalls ==
    { Call(<<IntV(1), StrV("red")>>, NoKw),
      Call(<<>>, Kw2("a", IntV(1), "b", StrV("red"))),
      Call(<<StrV("1")>>, NoKw),
      Call(<<>>, Kw1("b", StrV("red"))) }

Concurrent ==
    \/ \E t \in Tasks, f \in FuncNames, c \in ConcurrentCalls, reply \in Replies :
          SyncCall(t, f, c, reply)
    \/ \E t \in Tasks, f \in FuncNames, c \in ConcurrentCalls : AsyncCall(t, f, c)
    \/ \E t \in Tasks, reply \in Replies : AsyncResume(t, reply)

SpecConcurrent == InitDeclared /\ [][Concurrent]_vars

\* one task reads the accessors, mutates the lists they gave it, and calls; the
\* calls are one that binds for every function and one that does not
ListCalls ==
    { Call(<<IntV(1)>>, NoKw),
      Call(<<>>, Kw1("b", StrV("red"))) }

UseLists ==
    \/ \E f \in FuncNames : ReadFunctions(f)
    \/ \E f \in FuncNames : ReadStop(f)
    \/ \E f \in FuncNames : ReadReturnTypes(f)
    \/ \E r \in held : ListAppend(r)
    \/ \E f \in FuncNames, c \in ListCalls : SyncCall(MainTask, f, c, Message("r1"))
    \/ \E f \in FuncNames, c \in ListCalls : AsyncCall(MainTask, f, c)
    \/ AsyncResume(MainTask, Message("r1"))
    \/ \E f \in FuncNames, c \in ListCalls : FormatOp(MainTask, f, c)

SpecLists == InitDeclared /\ [][UseLists]_vars

----------------------------------------------------------------------------
(* Vocabulary of the properties *)

\* the invocation has handed a request to the backend
Issuing(i) == i.pc \in {"awaiting", "done"} /\ i.n_complete > 0

\* the invocation is a finished call (not a format operation)
Finished(i) == i.pc = "done"

IsSync(i) == pfs[i.pf].cls = "PromptFunction"
IsAsync(i) == pfs[i.pf].cls = "AsyncPromptFunction"

ParamNames(parameters) == {parameters[k].name : k \in DOMAIN parameters}

\* the ways a call fails to bind
TooManyPositionals(parameters, c) == Len(c.args) > Len(parameters)
UnknownKeyword(parameters, c) == \E n \in DOMAIN c.kwargs : n \notin ParamNames(parameters)
MissingRequired(parameters, c) ==
    \E k \in DOMAIN parameters :
        /\ ~parameters[k].has_default
        /\ k > Len(c.args)
        /\ parameters[k].name \notin DOMAIN c.kwargs

\* the template names a placeholder that is no parameter
ForeignPlaceholder(template, parameters) ==
    \E k \in DOMAIN template :
        template[k].field /\ template[k].text \notin ParamNames(parameters)

\* the call binds, and the value it gives parameter number k: the positional
\* value, else the keyword value, else the default
Binds(parameters, c) ==
    /\ ~TooManyPositionals(parameters, c)
    /\ ~UnknownKeyword(parameters, c)
    /\ ~MissingRequired(parameters, c)
    /\ \A k \in 1..Len(c.args) : parameters[k].name \notin DOMAIN c.kwargs

ValueGiven(parameters, c, k) ==
    IF k <= Len(c.args) THEN c.args[k]
    ELSE IF parameters[k].name \in DOMAIN c.kwargs THEN c.kwargs[parameters[k].name]
    ELSE parameters[k].default

RECURSIVE Substituted(_, _, _)
Substituted(template, parameters, c) ==
    IF template = <<>> THEN ""
    ELSE LET tok == Head(template)
             piece == IF tok.field
                      THEN Str(ValueGiven(parameters, c,
                               CHOOSE k \in DOMAIN parameters :
                                   parameters[k].name = tok.text))
                      ELSE tok.text
         IN piece \o Substituted(Tail(template), parameters, c)

\* the call binds and the template renders
Renders(f, c) ==
    /\ Binds(FuncNamed(f).parameters, c)
    /\ ~ForeignPlaceholder(decorator.template, FuncNamed(f).parameters)

\* the lists given to prompt(), by content (no functions: the empty list)
DeclaredFunctions == IF decorator.functions = NoRef THEN <<>> ELSE heap[decorator.functions]
DeclaredStop == ListValue(decorator.stop, heap)

\* the output types of an annotation
TypesOf(annotation) ==
    IF annotation.kind = "union" THEN annotation.args ELSE <<annotation>>

\* the backend a model object ends at
Inner(m) == IF m.cls = "RetryChatModel" THEN m.chat_model ELSE m.id

----------------------------------------------------------------------------
(* C1 *)

\* the request and the return value C1 describes, for a finished synchronous call
SyncContract(i) ==
    /\ i.n_complete = 1
    /\ i.request.method = "complete"
    /\ Len(i.request.messages) = 1
    /\ i.request.messages[1].role = "user"
    /\ format(pfs[i.pf], i.call.args, i.call.kwargs).ok
    /\ i.request.messages[1].content =
          format(pfs[i.pf], i.call.args, i.call.kwargs).value
    /\ i.request.functions = DeclaredFunctions
    /\ i.request.output_types = TypesOf(FuncNamed(i.pf).return_annotation)
    /\ i.request.stop = DeclaredStop
    /\ i.reply.kind = "message" => i.result = Returned(i.reply.content)
    /\ i.reply.kind = "error" => ~i.result.ok

\* C1 as stated: every call of a synchronous prompt function whose arguments
\* bind to the signature sends the backend one user message holding
\* format(args), with the declared functions, return types and stop, and
\* returns the content of the reply unmodified.
C1_AsStated ==
    \A t \in Tasks :
        (Finished(inv[t]) /\ IsSync(inv[t])
            /\ Binds(FuncNamed(inv[t].pf).parameters, inv[t].call))
        => SyncContract(inv[t])

\* C1 amended: the same, for every call whose arguments bind and whose
\* template renders with them (every placeholder names a parameter).
C1_SyncCallContract ==
    \A t \in Tasks :
        (Finished(inv[t]) /\ IsSync(inv[t]) /\ Renders(inv[t].pf, inv[t].call))
        => SyncContract(inv[t])

\* a synchronous call with functions and stop declared has returned the reply
C1_Witness ==
    \E t \in Tasks :
        /\ Finished(inv[t]) /\ IsSync(inv[t]) /\ Renders(inv[t].pf, inv[t].call)
        /\ inv[t].request.functions # <<>>
        /\ inv[t].request.stop.some
        /\ inv[t].result = Returned("r2")

----------------------------------------------------------------------------
(* C2 *)

\* two configurations that differ at most in the class and the function's name
SameDeclaration(c1, c2) ==
    [c1 EXCEPT !.cls = "-", !.name = "-"] = [c2 EXCEPT !.cls = "-", !.name = "-"]

\* C2: a synchronous and an asynchronous prompt function with the same
\* declaration, called with the same arguments under the same default backend,
\* hand the backend the same request (complete against acomplete), and with
\* the same reply end with the same result or the same error.
C2_AsyncMirrorsSync ==
    \A s \in Tasks, a \in Tasks :
        LET i == inv[s]
            j == inv[a]
        IN (/\ i.pc = "done" /\ i.config.cls = "PromptFunction"
            /\ j.pc \in {"awaiting", "done"} /\ j.config.cls = "AsyncPromptFunction"
            /\ SameDeclaration(i.config, j.config)
            /\ i.call = j.call
            /\ i.default = j.default)
           => /\ i.n_complete = j.n_complete
              /\ i.request.model = j.request.model
              /\ i.request.messages = j.request.messages
              /\ i.request.functions = j.request.functions
              /\ i.request.output_types = j.request.output_types
              /\ i.request.stop = j.request.stop
              /\ i.n_complete = 1 =>
                    i.request.method = "complete" /\ j.request.method = "acomplete"
              /\ (j.pc = "done" /\ i.reply = j.reply) => i.result = j.result

\* describe and adescribe were called alike, got the same reply and returned it
C2_Witness ==
    \E s \in Tasks, a \in Tasks :
        /\ inv[s].pc = "done" /\ inv[s].pf = "describe"
        /\ inv[a].pc = "done" /\ inv[a].pf = "adescribe"
        /\ inv[s].call = inv[a].call
        /\ inv[s].request.functions # <<>>
        /\ inv[s].reply = Message("r1") /\ inv[a].reply = Message("r1")
        /\ inv[a].result = Returned("r1")

----------------------------------------------------------------------------
(* C3 *)

\* the backend configured for a prompt function when the invocation was made
Configured(i) == IF decorator.model = NoModel THEN i.default ELSE decorator.model

\* C3: with max_retries 0 the request goes to the configured backend itself;
\* with max_retries n > 0 it goes to a retry wrapper around the configured
\* backend, bounded by n; the binding layer issues at most one completion call
\* per invocation.
C3_RetryOptionalAndBounded ==
    \A t \in Tasks :
        /\ inv[t].n_complete <= 1
        /\ Issuing(inv[t]) =>
            /\ decorator.max_retries = 0 =>
                  /\ inv[t].request.model.cls = "ChatModel"
                  /\ inv[t].request.model = Configured(inv[t])
            /\ decorator.max_retries > 0 =>
                  /\ inv[t].request.model.cls = "RetryChatModel"
                  /\ inv[t].request.model.chat_model = Configured(inv[t]).id
                  /\ inv[t].request.model.max_retries = decorator.max_retries

\* a call went through a retry wrapper of bound 2 around the explicit model
C3_Witness ==
    \E t \in Tasks :
        /\ Issuing(inv[t])
        /\ inv[t].request.model = RetryChatModel(ChatModel("m1"), 2)
        /\ inv[t].n_complete = 1

----------------------------------------------------------------------------
(* C5 *)

\* C5: an invocation whose arguments bind and whose template renders issues
\* exactly one completion call (complete when synchronous, acomplete when
\* asynchronous) carrying its own rendered text, whatever the other task is
\* doing, and once finished its result is the reply to its own request.
C5_ExactlyOneOwnCall ==
    \A t \in Tasks :
        (inv[t].pc \in {"awaiting", "done"} /\ Renders(inv[t].pf, inv[t].call))
        => /\ inv[t].n_complete = 1
           /\ inv[t].request.method = IF IsAsync(inv[t]) THEN "acomplete" ELSE "complete"
           /\ inv[t].request.messages =
                 <<UserMessage(Substituted(decorator.template,
                                           FuncNamed(inv[t].pf).parameters,
                                           inv[t].call))>>
           /\ inv[t].pc = "awaiting" => inv[t].reply = NoReply
           /\ inv[t].pc = "done" => inv[t].result = CallResult(inv[t].reply)

\* two invocations of adescribe overlapped: one has returned its reply while the
\* other, carrying another text, still awaits
C5_Witness ==
    \E t \in Tasks, u \in Tasks :
        /\ inv[t].pf = "adescribe" /\ inv[u].pf = "adescribe"
        /\ inv[t].pc = "awaiting"
        /\ inv[u].pc = "done" /\ inv[u].result = Returned("r2")
        /\ inv[u].n_complete = 1
        /\ inv[t].request.messages # inv[u].request.messages

----------------------------------------------------------------------------
(* C9 *)

\* C9: a prompt function declared with a model sends every call to that model;
\* one declared without sends each call to the default backend in effect when
\* the call is made.
C9_BackendResolvedAtCall ==
    \A t \in Tasks :
        Issuing(inv[t]) =>
            Inner(inv[t].request.model) =
                IF decorator.model # NoModel THEN decorator.model.id
                ELSE inv[t].default.id

\* after the default backend changed to d2, a call of a prompt function
\* declared without a model reached d2
C9_Witness ==
    \E t \in Tasks :
        /\ Issuing(inv[t])
        /\ decorator.model = NoModel
        /\ inv[t].default = ChatModel("d2")
        /\ Inner(inv[t].request.model) = "d2"

----------------------------------------------------------------------------
(* C7 *)

\* C7: format binds positional and keyword arguments to the signature and
\* replaces every placeholder by the value of the parameter of that name, the
\* default for a parameter the caller omitted; calls that give the parameters
\* the same values, however spelled, render the same text.
C7_FormatSubstitutesBoundValues ==
    \A t \in Tasks :
        LET i == inv[t]
            ps == FuncNamed(i.pf).parameters
        IN (i.pc = "formatted" /\ Renders(i.pf, i.call))
           => /\ i.result = Returned(Substituted(decorator.template, ps, i.call))
              /\ i.n_complete = 0
              /\ \A c \in ArgLists :
                    (/\ Binds(ps, c)
                     /\ \A k \in DOMAIN ps :
                           ValueGiven(ps, c, k) = ValueGiven(ps, i.call, k))
                    => format(pfs[i.pf], c.args, c.kwargs) = i.result

\* format rendered a call that omitted b with b's default
C7_Witness ==
    \E t \in Tasks :
        /\ inv[t].pc = "formatted"
        /\ inv[t].pf = "describe"
        /\ inv[t].call = Call(<<StrV("1")>>, NoKw)
        /\ inv[t].result = Returned("Describe 1 in blue")

----------------------------------------------------------------------------
(* C8 *)

\* the call cannot be rendered: it does not bind, or the template names a
\* placeholder that is no parameter
Malformed(f, c) ==
    \/ MissingRequired(FuncNamed(f).parameters, c)
    \/ UnknownKeyword(FuncNamed(f).parameters, c)
    \/ TooManyPositionals(FuncNamed(f).parameters, c)
    \/ ForeignPlaceholder(decorator.template, FuncNamed(f).parameters)

\* C8: a call, synchronous or asynchronous, whose arguments do not bind or
\* whose template names a placeholder that is no parameter ends with an error
\* raised to the caller, without any completion call, and leaves the prompt
\* function's configuration as it was when the call was made.
C8_MalformedCallRaisesBeforeBackend ==
    \A t \in Tasks :
        (inv[t].pc \in {"awaiting", "done"} /\ Malformed(inv[t].pf, inv[t].call))
        => /\ inv[t].pc = "done"
           /\ ~inv[t].result.ok
           /\ inv[t].result.error \in {"TypeError", "KeyError"}
           /\ inv[t].n_complete = 0
           /\ inv[t].request = NoRequest
           /\ inv[t].reply = NoReply
           /\ Config(pfs[inv[t].pf], heap) = inv[t].config

\* a call that binds raised KeyError for a placeholder that is no parameter
C8_Witness ==
    \E t \in Tasks :
        /\ inv[t].pc = "done"
        /\ inv[t].pf = "count"
        /\ Binds(FuncNamed("count").parameters, inv[t].call)
        /\ inv[t].result = Raised("KeyError")
        /\ inv[t].n_complete = 0

----------------------------------------------------------------------------
(* C6 *)

\* what decorating f must build from f and from the arguments of prompt()
Expected(f) ==
    [cls |-> IF FuncNamed(f).is_coroutine THEN "AsyncPromptFunction"
             ELSE "PromptFunction",
     name |-> f,
     signature |-> Signature(FuncNamed(f).parameters, FuncNamed(f).return_annotation),
     template |-> decorator.template,
     functions |-> DeclaredFunctions,
     stop |-> DeclaredStop,
     max_retries |-> decorator.max_retries,
     model |-> decorator.model,
     return_types |-> <<>>]

\* C6: the step that decorates f builds an AsyncPromptFunction exactly when f
\* is a coroutine function and a PromptFunction otherwise, holding f's name,
\* parameters and return annotation and the template, functions, stop,
\* max_retries and model that prompt() was given.
C6_DecoratorCaptures ==
    [][\A f \in FuncNames :
          (f \in declared' /\ f \notin declared)
          => [Config(pfs[f], heap) EXCEPT !.return_types = <<>>]' = Expected(f)]_vars

\* a coroutine function and a plain function are both decorated, with functions given
C6_Witness ==
    /\ {"describe", "adescribe"} \subseteq declared
    /\ pfs["adescribe"].cls = "AsyncPromptFunction"
    /\ pfs["describe"].cls = "PromptFunction"
    /\ pfs["describe"]._functions = decorator.functions
    /\ decorator.functions # NoRef

----------------------------------------------------------------------------
(* C4 *)

\* every prompt function's return types are the output types of its
\* annotation, and so are the output_types of every request
OutputTypesDerived ==
    /\ \A f \in declared :
          heap[pfs[f]._return_types] = TypesOf(FuncNamed(f).return_annotation)
    /\ \A t \in Tasks :
          Issuing(inv[t]) =>
              inv[t].request.output_types =
                  TypesOf(FuncNamed(inv[t].pf).return_annotation)

\* a read of the return_types accessor hands out a list of those types
AccessorReportsTypes ==
    \A f \in FuncNames :
        ReadReturnTypes(f) =>
            \E r \in held' \ held :
                heap'[r] = TypesOf(FuncNamed(f).return_annotation)

\* C4: the output types of a prompt function are the members of its return
\* annotation when that is a union and the annotation alone otherwise; they
\* stay so in every state, every call passes them as output_types, and the
\* return_types accessor reports them.
C4_OutputTypesFromAnnotation ==
    []OutputTypesDerived /\ [][AccessorReportsTypes]_vars

\* the accessor reported both members of a union, and a call passed them
C4_Witness ==
    \E t \in Tasks, r \in held :
        /\ Issuing(inv[t])
        /\ inv[t].pf = "adescribe"
        /\ inv[t].request.output_types = <<PlainT("int"), PlainT("str")>>
        /\ heap[r] = <<PlainT("int"), PlainT("str")>>

----------------------------------------------------------------------------
(* C10 *)

\* the step starts a call of task t that hands a request to the backend
CallIssued(t) ==
    /\ inv[t].pc # "awaiting"
    /\ inv'[t] # inv[t]
    /\ inv'[t].n_complete = 1

\* C10: every step (a call, successful or failing, a format operation, an
\* accessor read, a mutation of a list obtained from an accessor) leaves the
\* configuration of every prompt function as it was, and a call sends the
\* functions, stop and return types of that configuration.
C10_ConfigurationImmutable ==
    [][/\ \A f \in FuncNames :
            /\ pfs'[f] = pfs[f]
            /\ Config(pfs[f], heap)' = Config(pfs[f], heap)
       /\ \A t \in Tasks :
            CallIssued(t) =>
                /\ inv'[t].request.functions = Config(pfs[inv'[t].pf], heap).functions
                /\ inv'[t].request.stop = Config(pfs[inv'[t].pf], heap).stop
                /\ inv'[t].request.output_types =
                      Config(pfs[inv'[t].pf], heap).return_types
      ]_vars

\* user code grew a list it got from an accessor, and a call sent the
\* declared list, not the grown one
C10_Witness ==
    \E t \in Tasks, r \in held :
        /\ Issuing(inv[t])
        /\ inv[t].pf = "count"
        /\ heap[r] = <<PlainT("int"), PlainT("int")>>
        /\ inv[t].request.output_types = <<PlainT("int")>>
        /\ heap[pfs["count"]._return_types] = <<PlainT("int")>>

====
